---- MODULE Spec2Model ----
(***************************************************************************)
(* smssh: connect to a host over ssh with a private key that is pulled     *)
(* from Secrets Manager at connect time, staged in a temporary file and    *)
(* handed to an ssh child that runs as the terminal's foreground job.      *)
(*                                                                         *)
(* The model follows src/src/main.rs and src/src/commands/connect.rs: one  *)
(* supervisor process (program counter pc), one ssh child, the staging     *)
(* directory and key file, the controlling terminal, and asynchronous      *)
(* delivery of termination signals to the supervisor. ConfigSpec follows   *)
(* src/src/commands/config.rs and src/src/config.rs: successive            *)
(* invocations of the set and remove commands on one configuration file.   *)
(***************************************************************************)
EXTENDS Integers, Sequences, FiniteSets, TLC

\* ------------------------------------------------------------------ bounds
\* The child's normal exit codes are 0..MaxExitCode.
MaxExitCode == 2

\* ------------------------------------------------------- program constants
DirMode == 448            \* 0o700, create_key_directory
FileMode == 384           \* 0o600, create_key_file
ReadOnlyMode == 256       \* 0o400, create_key_file
GroupOtherBits == 56 + 7  \* 0o077: every group and other permission bit

\* Process ids. SupPid is what getpid() returns in the supervisor, ChildPid is
\* child.id(); LeaderPid leads the supervisor's group when the supervisor is
\* not itself the leader (started by a script or inside a pipeline).
SupPid == 10
ChildPid == 11
HelperPid == ChildPid + 1
LeaderPid == SupPid - 1

TermSignals == {"SIGHUP", "SIGINT", "SIGTERM", "SIGQUIT"}
RegOrder == <<"SIGHUP", "SIGINT", "SIGTERM", "SIGQUIT">>

\* The three resolution errors, by the message the code builds.
ErrAliasNotFound == "Key alias '{key_alias}' does not exist"
ErrHostNotFound == "Host '{host_config}' does not exist"
ErrDanglingAlias == "Key alias '{}' configured in '{host_config}' does not exist"

\* ----------------------------------------------------------- pure helpers
RECURSIVE BitAnd(_, _)
BitAnd(a, b) ==
    IF a = 0 \/ b = 0 THEN 0
    ELSE (a % 2) * (b % 2) + 2 * BitAnd(a \div 2, b \div 2)

\* mkdir(2) / open(2) with O_CREAT: the requested mode with the umask's bits
\* cleared.
ApplyUmask(mode, um) == mode - BitAnd(mode, um)

\* The umasks of the environments modelled: 0o022 and 0o077.
Umasks == {18, 63}

\* Configurations (config.rs, Config / HostConfig / KeyAliasConfig).
AliasMaps == {<<>>, [n \in {"prod-key"} |-> [secret_arn |-> "arn:prod"]]}
HostArgs == {<<>>, <<"-p", "2222">>}
HostMaps ==
    {<<>>} \cup
    {[n \in {"bastion"} |->
        [key_alias |-> "prod-key", args |-> a, destination |-> "user@host"]]
     : a \in HostArgs}
Configs == {[key_aliases |-> k, hosts |-> h] : k \in AliasMaps, h \in HostMaps}

\* Command lines (cli.rs, SMSSHCommand::Connect / ConnectWithAlias).
SshArgs == {<<>>, <<"-v">>}
Commands ==
    {[kind |-> "Connect", name |-> "bastion", ssh_args |-> s] : s \in SshArgs}
    \cup
    {[kind |-> "ConnectWithAlias", name |-> "prod-key", ssh_args |-> s]
     : s \in SshArgs}

Envs == [leader : BOOLEAN, umask : Umasks, sigttou : {"SIG_DFL", "SIG_IGN"}]

VARIABLES
    env,          \* the environment the process was started in
    config,       \* Config::load()
    cmd,          \* Args::parse()
    configFile,   \* the configuration file on disk, as Config::load reads it
    stored,       \* whether this invocation called Config::store
    pc,           \* the supervisor's position
    result,       \* what connect_by_* returned: "none", "Ok" or an error
    exitStatus,   \* the process exit status, -1 while running
    key_alias_config, \* the resolved alias ("none" before resolution)
    destination,  \* Option<&str>: <<>> is None, <<d>> is Some(d)
    key_dir,      \* the TempDir
    key_file,     \* the NamedTempFile
    rmFailed,     \* removals that failed at drop
    registered,   \* signals whose handler sets term_flag
    term_flag,    \* the AtomicBool
    key,          \* "unfetched", "fetched" or "failed"
    fetchCount,   \* calls of get_key_blocking
    argv,         \* the arguments given to ssh
    rcf,          \* run_command_in_foreground: "none", "Ok" or an error
    childState,   \* "none","forked","detached","running","zombie","reaped","failed"
    childPgid,    \* the child's process group
    childStatus,  \* how the child ended
    childPending, \* signals sent to the child and not yet acted on
    helper,       \* a process ssh forks into its own group (a ProxyCommand)
    termFg,       \* the terminal's foreground process group
    sigttou,      \* the supervisor's SIGTTOU disposition
    old_action    \* the saved disposition, "unset" before sigaction

vars == <<env, config, cmd, configFile, stored, pc, result, exitStatus, key_alias_config,
          destination, key_dir, key_file, rmFailed, registered, term_flag,
          key, fetchCount, argv, rcf, childState, childPgid, childStatus,
          childPending, helper, termFg, sigttou, old_action>>

cfgVars == <<env, config, cmd, configFile, stored>>
resVars == <<key_alias_config, destination>>
fsVars == <<key_dir, key_file, rmFailed>>
sigVars == <<registered, term_flag>>
keyVars == <<key, fetchCount>>
childVars == <<childState, childPgid, childStatus, childPending, helper>>
ttyVars == <<termFg, sigttou, old_action>>

\* The supervisor's process group.
SupPgid == IF env.leader THEN SupPid ELSE LeaderPid

NoDir == [exists |-> FALSE, mode |-> 0, loc |-> "none"]
NoFile == [exists |-> FALSE, mode |-> 0, content |-> "empty", open |-> FALSE]
NoStatus == [kind |-> "none", code |-> 0]

Init ==
    /\ env \in Envs
    /\ config \in Configs
    /\ cmd \in Commands
    /\ configFile = config
    /\ stored = FALSE
    /\ pc = "main"
    /\ result = "none"
    /\ exitStatus = -1
    /\ key_alias_config = "none"
    /\ destination = <<>>
    /\ key_dir = NoDir
    /\ key_file = NoFile
    /\ rmFailed = {}
    /\ registered = {}
    /\ term_flag = FALSE
    /\ key = "unfetched"
    /\ fetchCount = 0
    /\ argv = <<>>
    /\ rcf = "none"
    /\ childState = "none"
    /\ childPgid = 0
    /\ childStatus = NoStatus
    /\ childPending = {}
    /\ helper = "none"
    /\ termFg = SupPgid
    /\ sigttou = env.sigttou
    /\ old_action = "unset"

\* ------------------------------------------------------------- resolution
\* connect_by_alias: the alias must be a key of config.key_aliases.
ResolveAlias(cfg, name) ==
    IF name \in DOMAIN cfg.key_aliases THEN "Ok" ELSE ErrAliasNotFound

ResolveHostSameError(cfg, name) ==
    IF name \notin DOMAIN cfg.hosts THEN ErrHostNotFound
    ELSE IF cfg.hosts[name].key_alias \notin DOMAIN cfg.key_aliases
         THEN ErrAliasNotFound
         ELSE "Ok"

\* connect_by_host: the host must be a key of config.hosts and its key_alias a
\* key of config.key_aliases.
ResolveHost(cfg, name) ==
    IF name \notin DOMAIN cfg.hosts THEN ErrHostNotFound
    ELSE IF cfg.hosts[name].key_alias \notin DOMAIN cfg.key_aliases
         THEN ErrDanglingAlias
         ELSE "Ok"

connect_by_alias ==
    /\ pc = "main"
    /\ cmd.kind = "ConnectWithAlias"
    /\ LET r == ResolveAlias(config, cmd.name) IN
       IF r = "Ok"
       THEN /\ key_alias_config' = config.key_aliases[cmd.name].secret_arn
            /\ destination' = <<>>
            /\ pc' = "create_key_directory"
            /\ UNCHANGED result
       ELSE /\ result' = r
            /\ pc' = "resolve_failed"
            /\ UNCHANGED resVars
    /\ UNCHANGED <<cfgVars, exitStatus, fsVars, sigVars, keyVars, argv, rcf,
                   childVars, ttyVars>>

connect_by_host ==
    /\ pc = "main"
    /\ cmd.kind = "Connect"
    /\ LET r == ResolveHost(config, cmd.name) IN
       IF r = "Ok"
       THEN /\ key_alias_config' =
                 config.key_aliases[config.hosts[cmd.name].key_alias].secret_arn
            /\ destination' = <<config.hosts[cmd.name].destination>>
            /\ pc' = "create_key_directory"
            /\ UNCHANGED result
       ELSE /\ result' = r
            /\ pc' = "resolve_failed"
            /\ UNCHANGED resVars
    /\ UNCHANGED <<cfgVars, exitStatus, fsVars, sigVars, keyVars, argv, rcf,
                   childVars, ttyVars>>

\* ---------------------------------------------------------------- staging
\* create_key_directory: a 0o700 directory under /dev/shm, or under the
\* default temporary location when that fails.
create_key_directory ==
    /\ pc = "create_key_directory"
    /\ \E shm \in BOOLEAN, tmp \in BOOLEAN :
         IF shm \/ tmp
         THEN /\ key_dir' = [exists |-> TRUE,
                             mode |-> ApplyUmask(DirMode, env.umask),
                             loc |-> IF shm THEN "/dev/shm" ELSE "/tmp"]
              /\ pc' = "create_key_file"
              /\ UNCHANGED result
         ELSE /\ result' = "Err(create_key_directory)"
              /\ pc' = "connect_returned"
              /\ UNCHANGED key_dir
    /\ UNCHANGED <<cfgVars, exitStatus, resVars, key_file, rmFailed, sigVars,
                   keyVars, argv, rcf, childVars, ttyVars>>

KeyFileInitialModeWide(um) == ApplyUmask(FileMode + 36, um)

\* create_key_file, tempfile_in: the mode the new file has.
KeyFileInitialMode(um) == ApplyUmask(FileMode, um)

\* create_key_file, first half: the file is created in the directory. On
\* failure only key_dir is live in connect.
create_key_file ==
    /\ pc = "create_key_file"
    /\ \E ok \in BOOLEAN :
         IF ok
         THEN /\ key_file' = [exists |-> TRUE,
                              mode |-> KeyFileInitialMode(env.umask),
                              content |-> "empty", open |-> TRUE]
              /\ pc' = "set_permissions"
              /\ UNCHANGED result
         ELSE /\ result' = "Err(create_key_file)"
              /\ pc' = "drop_key_dir"
              /\ UNCHANGED key_file
    /\ UNCHANGED <<cfgVars, exitStatus, resVars, key_dir, rmFailed, sigVars,
                   keyVars, argv, rcf, childVars, ttyVars>>

set_permissions_skipped ==
    /\ pc = "set_permissions"
    /\ \E ok \in BOOLEAN :
         IF ok
         THEN /\ pc' = "register_termination_handlers"
              /\ UNCHANGED <<result, key_file>>
         ELSE /\ result' = "Err(set_permissions)"
              /\ pc' = "drop_key_file"
              /\ UNCHANGED key_file
    /\ UNCHANGED <<cfgVars, exitStatus, resVars, key_dir, rmFailed, sigVars,
                   keyVars, argv, rcf, childVars, ttyVars>>

\* create_key_file, second half: set_permissions(0o400). On failure the
\* NamedTempFile is dropped, then connect returns and drops key_dir.
set_permissions ==
    /\ pc = "set_permissions"
    /\ \E ok \in BOOLEAN :
         IF ok
         THEN /\ key_file' = [key_file EXCEPT !.mode = ReadOnlyMode]
              /\ pc' = "register_termination_handlers"
              /\ UNCHANGED result
         ELSE /\ result' = "Err(set_permissions)"
              /\ pc' = "drop_key_file"
              /\ UNCHANGED key_file
    /\ UNCHANGED <<cfgVars, exitStatus, resVars, key_dir, rmFailed, sigVars,
                   keyVars, argv, rcf, childVars, ttyVars>>

register_termination_handlers_no_quit ==
    /\ pc = "register_termination_handlers"
    /\ LET s == RegOrder[Cardinality(registered) + 1] IN
       \E ok \in BOOLEAN :
         IF ok
         THEN /\ registered' = registered \cup {s}
              /\ pc' = IF Cardinality(registered') = 3
                       THEN "pull_key" ELSE "register_termination_handlers"
              /\ UNCHANGED result
         ELSE /\ result' = "Err(register_termination_handlers)"
              /\ pc' = "drop_key_file"
              /\ UNCHANGED registered
    /\ UNCHANGED <<cfgVars, exitStatus, resVars, fsVars, term_flag, keyVars,
                   argv, rcf, childVars, ttyVars>>

\* register_termination_handlers: SIGHUP, SIGINT, SIGTERM, SIGQUIT in this
\* order, one signal_hook::flag::register call a step.
register_termination_handlers ==
    /\ pc = "register_termination_handlers"
    /\ LET s == RegOrder[Cardinality(registered) + 1] IN
       \E ok \in BOOLEAN :
         IF ok
         THEN /\ registered' = registered \cup {s}
              /\ pc' = IF registered' = TermSignals
                       THEN "pull_key" ELSE "register_termination_handlers"
              /\ UNCHANGED result
         ELSE /\ result' = "Err(register_termination_handlers)"
              /\ pc' = "drop_key_file"
              /\ UNCHANGED registered
    /\ UNCHANGED <<cfgVars, exitStatus, resVars, fsVars, term_flag, keyVars,
                   argv, rcf, childVars, ttyVars>>

pull_key_retry ==
    /\ pc = "pull_key"
    /\ fetchCount' = fetchCount + 1
    /\ \E ok \in BOOLEAN :
         IF ok
         THEN /\ key' = "fetched"
              /\ pc' = "write_all"
              /\ UNCHANGED result
         ELSE /\ key' = "failed"
              /\ IF fetchCount' < 2
                 THEN pc' = "pull_key" /\ UNCHANGED result
                 ELSE pc' = "drop_key_file" /\ result' = "Err(get_key_blocking)"
    /\ UNCHANGED <<cfgVars, exitStatus, resVars, fsVars, sigVars, argv, rcf,
                   childVars, ttyVars>>

\* pull_key, first half: one call of aws::get_key_blocking.
pull_key ==
    /\ pc = "pull_key"
    /\ fetchCount' = fetchCount + 1
    /\ \E ok \in BOOLEAN :
         IF ok
         THEN /\ key' = "fetched"
              /\ pc' = "write_all"
              /\ UNCHANGED result
         ELSE /\ key' = "failed"
              /\ result' = "Err(get_key_blocking)"
              /\ pc' = "drop_key_file"
    /\ UNCHANGED <<cfgVars, exitStatus, resVars, fsVars, sigVars, argv, rcf,
                   childVars, ttyVars>>

\* pull_key, second half: write_all through the descriptor opened at
\* creation (the file's mode is already 0o400).
write_all ==
    /\ pc = "write_all"
    /\ \E ok \in BOOLEAN :
         IF ok
         THEN /\ key_file' = [key_file EXCEPT !.content = "secret"]
              /\ pc' = "build_command"
              /\ UNCHANGED result
         ELSE /\ \E c \in {"empty", "partial"} :
                   key_file' = [key_file EXCEPT !.content = c]
              /\ result' = "Err(write_all)"
              /\ pc' = "drop_key_file"
    /\ UNCHANGED <<cfgVars, exitStatus, resVars, key_dir, rmFailed, sigVars,
                   keyVars, argv, rcf, childVars, ttyVars>>

\* key_file.path()
KeyPath(dir) ==
    IF dir.loc = "/dev/shm" THEN "/dev/shm/.tmpdir/.tmpfile"
    ELSE "/tmp/.tmpdir/.tmpfile"

\* connect, the Command: "-i", the key path, ssh_args, then the destination
\* when there is one.
BuildArgv(path, ssh_args, dest) == <<"-i", path>> \o ssh_args \o dest

build_command ==
    /\ pc = "build_command"
    /\ argv' = BuildArgv(KeyPath(key_dir), cmd.ssh_args, destination)
    /\ pc' = "spawn"
    /\ UNCHANGED <<cfgVars, result, exitStatus, resVars, fsVars, sigVars,
                   keyVars, rcf, childVars, ttyVars>>

\* ------------------------------------------------------------------ drops
\* Drop of the NamedTempFile at the end of its scope: remove_file, whose
\* failure is ignored. key_file is declared after key_dir, so it goes first.
drop_key_file ==
    /\ pc = "drop_key_file"
    /\ \E ok \in BOOLEAN :
         IF ok
         THEN /\ key_file' = [key_file EXCEPT !.exists = FALSE, !.open = FALSE]
              /\ UNCHANGED rmFailed
         ELSE /\ key_file' = [key_file EXCEPT !.open = FALSE]
              /\ rmFailed' = rmFailed \cup {"file"}
    /\ pc' = "drop_key_dir"
    /\ UNCHANGED <<cfgVars, result, exitStatus, resVars, key_dir, sigVars,
                   keyVars, argv, rcf, childVars, ttyVars>>

drop_key_dir_leak ==
    /\ pc = "drop_key_dir"
    /\ pc' = "connect_returned"
    /\ UNCHANGED <<cfgVars, result, exitStatus, resVars, fsVars, sigVars,
                   keyVars, argv, rcf, childVars, ttyVars>>

drop_key_dir_escalate ==
    /\ pc = "drop_key_dir"
    /\ \E out \in {"ok", "dir_left", "all_left"} :
         CASE out = "ok" ->
                /\ key_dir' = [key_dir EXCEPT !.exists = FALSE]
                /\ key_file' = [key_file EXCEPT !.exists = FALSE]
                /\ UNCHANGED <<rmFailed, result>>
           [] out = "dir_left" ->
                /\ key_file' = [key_file EXCEPT !.exists = FALSE]
                /\ rmFailed' = rmFailed \cup {"dir"}
                /\ result' = "Err(remove_dir_all)"
                /\ UNCHANGED key_dir
           [] out = "all_left" ->
                /\ rmFailed' = rmFailed \cup {"dir"}
                /\ result' = "Err(remove_dir_all)"
                /\ UNCHANGED <<key_dir, key_file>>
    /\ pc' = "connect_returned"
    /\ UNCHANGED <<cfgVars, exitStatus, resVars, sigVars, keyVars,
                   argv, rcf, childVars, ttyVars>>

\* Drop of the TempDir: remove_dir_all, whose failure is ignored. It removes
\* what is still in the directory, then the directory.
drop_key_dir ==
    /\ pc = "drop_key_dir"
    /\ \E out \in {"ok", "dir_left", "all_left"} :
         CASE out = "ok" ->
                /\ key_dir' = [key_dir EXCEPT !.exists = FALSE]
                /\ key_file' = [key_file EXCEPT !.exists = FALSE]
                /\ UNCHANGED rmFailed
           [] out = "dir_left" ->
                /\ key_file' = [key_file EXCEPT !.exists = FALSE]
                /\ rmFailed' = rmFailed \cup {"dir"}
                /\ UNCHANGED key_dir
           [] out = "all_left" ->
                /\ rmFailed' = rmFailed \cup {"dir"}
                /\ UNCHANGED <<key_dir, key_file>>
    /\ pc' = "connect_returned"
    /\ UNCHANGED <<cfgVars, result, exitStatus, resVars, sigVars, keyVars,
                   argv, rcf, childVars, ttyVars>>

\* main: Ok(()) is exit status 0, an Err is exit status 1.
main_return ==
    /\ pc \in {"connect_returned", "resolve_failed"}
    /\ exitStatus' = IF result = "Ok" THEN 0 ELSE 1
    /\ pc' = "exited"
    /\ UNCHANGED <<cfgVars, result, resVars, fsVars, sigVars, keyVars, argv,
                   rcf, childVars, ttyVars>>

\* --------------------------------------------------- signals to supervisor
DeliverSignalForwarding ==
    /\ pc \notin {"exited", "killed"}
    /\ \E s \in TermSignals :
         IF s \in registered
         THEN /\ term_flag' = TRUE
              /\ childPending' =
                   IF childState = "running" THEN childPending \cup {"SIGTERM"}
                   ELSE childPending
              /\ UNCHANGED pc
         ELSE /\ pc' = "killed"
              /\ UNCHANGED <<term_flag, childPending>>
    /\ UNCHANGED <<cfgVars, result, exitStatus, resVars, fsVars, registered,
                   keyVars, argv, rcf, childState, childPgid, childStatus,
                   helper, ttyVars>>

\* A termination signal reaches the supervisor: a registered handler stores
\* true in term_flag; without one the default action ends the process.
DeliverSignal ==
    /\ pc \notin {"exited", "killed"}
    /\ \E s \in TermSignals :
         IF s \in registered
         THEN /\ term_flag' = TRUE
              /\ UNCHANGED pc
         ELSE /\ pc' = "killed"
              /\ UNCHANGED term_flag
    /\ UNCHANGED <<cfgVars, result, exitStatus, resVars, fsVars, registered,
                   keyVars, argv, rcf, childVars, ttyVars>>

\* ---------------------------------------------------------------- the child
\* pre_exec in the forked child: setpgid(pid, pid).
ChildSetpgid ==
    /\ childState = "forked"
    /\ \E ok \in BOOLEAN :
         IF ok
         THEN childState' = "detached" /\ childPgid' = ChildPid
         ELSE childState' = "failed" /\ UNCHANGED childPgid
    /\ UNCHANGED <<cfgVars, pc, result, exitStatus, resVars, fsVars, sigVars,
                   keyVars, argv, rcf, childStatus, childPending, helper, ttyVars>>

\* exec of ssh in the child, after pre_exec.
ChildExec ==
    /\ childState = "detached"
    /\ \E ok \in BOOLEAN :
         childState' = IF ok THEN "running" ELSE "failed"
    /\ UNCHANGED <<cfgVars, pc, result, exitStatus, resVars, fsVars, sigVars,
                   keyVars, argv, rcf, childPgid, childStatus, childPending,
                   helper, ttyVars>>

\* ssh exits with a code.
ChildExit ==
    /\ childState = "running"
    /\ \E c \in 0..MaxExitCode :
         childStatus' = [kind |-> "exit", code |-> c]
    /\ childState' = "zombie"
    /\ childPending' = {}
    /\ UNCHANGED <<cfgVars, pc, result, exitStatus, resVars, fsVars, sigVars,
                   keyVars, argv, rcf, childPgid, helper, ttyVars>>

\* ssh is ended by a signal: SIGKILL when one is pending, a pending SIGTERM
\* it does not handle, or a signal from elsewhere (code SIGINT).
ChildKilled ==
    /\ childState = "running"
    /\ \E s \in childPending \cup {"SIGINT"} :
         childStatus' = [kind |-> "signal", code |-> s]
    /\ childState' = "zombie"
    /\ childPending' = {}
    /\ UNCHANGED <<cfgVars, pc, result, exitStatus, resVars, fsVars, sigVars,
                   keyVars, argv, rcf, childPgid, helper, ttyVars>>

\* ssh ignores or handles a pending SIGTERM and keeps running.
ChildIgnoresTerm ==
    /\ childState = "running"
    /\ "SIGTERM" \in childPending
    /\ childPending' = childPending \ {"SIGTERM"}
    /\ UNCHANGED <<cfgVars, pc, result, exitStatus, resVars, fsVars, sigVars,
                   keyVars, argv, rcf, childState, childPgid, childStatus,
                   helper, ttyVars>>

\* ssh forks a helper (a ProxyCommand, a multiplexing master): it stays in
\* the child's process group.
ChildForksHelper ==
    /\ childState = "running"
    /\ helper = "none"
    /\ helper' = "running"
    /\ UNCHANGED <<cfgVars, pc, result, exitStatus, resVars, fsVars, sigVars,
                   keyVars, argv, rcf, childState, childPgid, childStatus,
                   childPending, ttyVars>>

\* ------------------------------------------------ run_command_in_foreground
\* The error return of run_command_in_foreground (the ? operator): connect
\* returns the same error and its locals are dropped.
RcfReturn(r) ==
    /\ rcf' = r
    /\ result' = r
    /\ pc' = "drop_key_file"

\* Command::spawn, the fork.
spawn ==
    /\ pc = "spawn"
    /\ \E ok \in BOOLEAN :
         IF ok
         THEN /\ childState' = "forked"
              /\ childPgid' = SupPgid
              /\ pc' = "spawn_wait"
              /\ UNCHANGED <<rcf, result>>
         ELSE /\ RcfReturn("Err(spawn)")
              /\ UNCHANGED <<childState, childPgid>>
    /\ UNCHANGED <<cfgVars, exitStatus, resVars, fsVars, sigVars, keyVars,
                   argv, childStatus, childPending, helper, ttyVars>>

SpawnReadyNoWait == childState \in {"forked", "detached", "running", "zombie"}

\* Command::spawn returns Ok once the child has exec'ed: the parent reads the
\* close-on-exec pipe until the exec closes it.
SpawnReady == childState \in {"running", "zombie"}

\* Command::spawn, the parent's wait for the child's exec. A failure of
\* pre_exec or exec comes back through the pipe; the child is reaped.
spawn_wait ==
    /\ pc = "spawn_wait"
    /\ \/ /\ SpawnReady
          /\ pc' = "sigaction"
          /\ UNCHANGED <<rcf, result, childState>>
       \/ /\ childState = "failed"
          /\ childState' = "reaped"
          /\ RcfReturn("Err(spawn)")
    /\ UNCHANGED <<cfgVars, exitStatus, resVars, fsVars, sigVars, keyVars,
                   argv, childPgid, childStatus, childPending, helper, ttyVars>>

sigaction_without_ignore ==
    /\ pc = "sigaction"
    /\ \E ok \in BOOLEAN :
         IF ok
         THEN /\ old_action' = sigttou
              /\ pc' = "handoff"
              /\ UNCHANGED <<rcf, result, sigttou>>
         ELSE /\ RcfReturn("Err(sigaction)")
              /\ UNCHANGED <<sigttou, old_action>>
    /\ UNCHANGED <<cfgVars, exitStatus, resVars, fsVars, sigVars, keyVars,
                   argv, childVars, termFg>>

\* sigaction(SIGTTOU, SIG_IGN), keeping the old action.
sigaction_ignore ==
    /\ pc = "sigaction"
    /\ \E ok \in BOOLEAN :
         IF ok
         THEN /\ old_action' = sigttou
              /\ sigttou' = "SIG_IGN"
              /\ pc' = "handoff"
              /\ UNCHANGED <<rcf, result>>
         ELSE /\ RcfReturn("Err(sigaction)")
              /\ UNCHANGED <<sigttou, old_action>>
    /\ UNCHANGED <<cfgVars, exitStatus, resVars, fsVars, sigVars, keyVars,
                   argv, childVars, termFg>>

\* The process groups of the session.
ProcessGroups ==
    {SupPgid} \cup
    (IF childState \in {"detached", "running", "zombie"} THEN {childPgid} ELSE {})

\* The live processes of the session that lead no group.
LoneProcesses ==
    (IF env.leader THEN {} ELSE {SupPid}) \cup
    (IF childState = "forked" THEN {ChildPid} ELSE {})

\* tcsetpgrp(STDIN_FILENO, pgrp) can succeed when stdin is the controlling
\* terminal and pgrp is a process group of the session. For the id of a
\* process that leads no group POSIX gives EPERM; Linux accepts it.
TcsetpgrpCanSucceed(pgrp) == pgrp \in ProcessGroups \cup LoneProcesses
TcsetpgrpCanFail(pgrp) == TRUE

\* A background process that calls tcsetpgrp with SIGTTOU neither ignored
\* nor blocked is stopped by SIGTTOU.
StoppedByTtou == termFg # SupPgid /\ sigttou # "SIG_IGN"

\* tcsetpgrp(STDIN_FILENO, child_pid): the hand-off.
handoff ==
    /\ pc = "handoff"
    /\ IF StoppedByTtou
       THEN pc' = "stopped" /\ UNCHANGED <<termFg, rcf, result>>
       ELSE \/ /\ TcsetpgrpCanSucceed(ChildPid)
               /\ termFg' = ChildPid
               /\ pc' = "loop"
               /\ UNCHANGED <<rcf, result>>
            \/ /\ TcsetpgrpCanFail(ChildPid)
               /\ RcfReturn("Err(tcsetpgrp child)")
               /\ UNCHANGED termFg
    /\ UNCHANGED <<cfgVars, exitStatus, resVars, fsVars, sigVars, keyVars,
                   argv, childVars, sigttou, old_action>>

\* The head of the loop: term_flag.load().
loop_check_flag ==
    /\ pc = "loop"
    /\ pc' = IF term_flag THEN "term_announce" ELSE "try_wait"
    /\ UNCHANGED <<cfgVars, result, exitStatus, resVars, fsVars, sigVars,
                   keyVars, argv, rcf, childVars, ttyVars>>

\* stdout.flush()?; stdout.execute(MoveToNextLine)?; println!
term_announce ==
    /\ pc = "term_announce"
    /\ \E ok \in BOOLEAN :
         IF ok
         THEN pc' = "term_kill" /\ UNCHANGED <<rcf, result>>
         ELSE RcfReturn("Err(stdout)")
    /\ UNCHANGED <<cfgVars, exitStatus, resVars, fsVars, sigVars, keyVars,
                   argv, childVars, ttyVars>>

\* The live processes of the child's process group.
ChildGroupLive ==
    (IF childState = "running" THEN {ChildPid} ELSE {}) \cup
    (IF helper = "running" THEN {HelperPid} ELSE {})

\* kill(2): a positive pid names that process alone, a negative one every
\* process of the group -pid.
KillRecipients(pid) ==
    IF pid > 0 THEN {pid} \cap ChildGroupLive
    ELSE IF -pid = childPgid THEN ChildGroupLive ELSE {}

\* signal::kill(child_pid, SIGTERM).or_else(|_| child.kill())?
\* kill is given child_pid; child.kill() sends SIGKILL to the child.
term_kill ==
    /\ pc = "term_kill"
    /\ \E out \in {"SIGTERM", "SIGKILL", "Err"} :
         IF out = "Err"
         THEN /\ RcfReturn("Err(kill)")
              /\ UNCHANGED <<childPending, helper>>
         ELSE /\ LET to == IF out = "SIGTERM" THEN KillRecipients(ChildPid)
                           ELSE {ChildPid} \cap ChildGroupLive IN
                 /\ childPending' =
                      IF ChildPid \in to THEN childPending \cup {out}
                      ELSE childPending
                 /\ helper' = IF HelperPid \in to THEN "terminated" ELSE helper
              /\ pc' = "term_wait"
              /\ UNCHANGED <<rcf, result>>
    /\ UNCHANGED <<cfgVars, exitStatus, resVars, fsVars, sigVars, keyVars,
                   argv, childState, childPgid, childStatus, ttyVars>>

\* child.wait()?: blocks until the child has exited, and reaps it.
term_wait ==
    /\ pc = "term_wait"
    /\ \/ /\ childState = "zombie"
          /\ childState' = "reaped"
          /\ pc' = "term_done"
          /\ UNCHANGED <<rcf, result>>
       \/ /\ RcfReturn("Err(wait)")
          /\ UNCHANGED childState
    /\ UNCHANGED <<cfgVars, exitStatus, resVars, fsVars, sigVars, keyVars,
                   argv, childPgid, childStatus, childPending, helper, ttyVars>>

\* stdout.flush()?; stdout.execute(MoveToNextLine)?; break
term_done ==
    /\ pc = "term_done"
    /\ \E ok \in BOOLEAN :
         IF ok
         THEN pc' = "restore_fg" /\ UNCHANGED <<rcf, result>>
         ELSE RcfReturn("Err(stdout)")
    /\ UNCHANGED <<cfgVars, exitStatus, resVars, fsVars, sigVars, keyVars,
                   argv, childVars, ttyVars>>

\* child.try_wait(): Ok(Some(_)) reaps the child and leaves the loop,
\* Ok(None) sleeps, Err leaves the loop.
try_wait ==
    /\ pc = "try_wait"
    /\ \/ /\ childState = "zombie"
          /\ childState' = "reaped"
          /\ pc' = "restore_fg"
       \/ /\ childState = "running"
          /\ pc' = "sleep"
          /\ UNCHANGED childState
       \/ /\ pc' = "restore_fg"
          /\ UNCHANGED childState
    /\ UNCHANGED <<cfgVars, result, exitStatus, resVars, fsVars, sigVars,
                   keyVars, argv, rcf, childPgid, childStatus, childPending,
                   helper, ttyVars>>

\* thread::sleep(250 ms), then the head of the loop again.
sleep ==
    /\ pc = "sleep"
    /\ pc' = "loop"
    /\ UNCHANGED <<cfgVars, result, exitStatus, resVars, fsVars, sigVars,
                   keyVars, argv, rcf, childVars, ttyVars>>

\* tcsetpgrp(STDIN_FILENO, getpid()): the restoration.
restore_fg ==
    /\ pc = "restore_fg"
    /\ IF StoppedByTtou
       THEN pc' = "stopped" /\ UNCHANGED <<termFg, rcf, result>>
       ELSE \/ /\ TcsetpgrpCanSucceed(SupPid)
               /\ termFg' = SupPid
               /\ pc' = "restore_sigaction"
               /\ UNCHANGED <<rcf, result>>
            \/ /\ TcsetpgrpCanFail(SupPid)
               /\ RcfReturn("Err(tcsetpgrp parent)")
               /\ UNCHANGED termFg
    /\ UNCHANGED <<cfgVars, exitStatus, resVars, fsVars, sigVars, keyVars,
                   argv, childVars, sigttou, old_action>>

\* sigaction(SIGTTOU, &old_action)?; Ok(())
restore_sigaction ==
    /\ pc = "restore_sigaction"
    /\ \E ok \in BOOLEAN :
         IF ok
         THEN /\ sigttou' = old_action
              /\ RcfReturn("Ok")
         ELSE /\ RcfReturn("Err(sigaction)")
              /\ UNCHANGED sigttou
    /\ UNCHANGED <<cfgVars, exitStatus, resVars, fsVars, sigVars, keyVars,
                   argv, childVars, termFg, old_action>>

\* --------------------------------------------------- configuration commands
\* The messages of add_config, remove_config, Config::store and Config::load.
ErrConfigAliasNotFound == "Key alias '{alias}' not found"
ErrConfigHostNotFound == "Host '{name}' not found"
ErrAliasInUse ==
    "Key alias '{alias}' cannot be removed because it is used by the following hosts: {host_names:?}"
ErrStore == "Failed to write config file"
ErrLoad == "Failed to parse config from {path:?}"

\* The names and secrets the set and remove commands are given.
AliasNames == {"prod-key", "dev-key"}
HostNames == {"bastion", "db"}
SecretArns == {"arn:prod", "arn:dev"}

\* Config values: HashMap<String, KeyAliasConfig> and
\* HashMap<String, HostConfig> over these names. A host's key_alias is any
\* string; nothing in the type ties it to key_aliases.
StoredAliasMaps ==
    UNION {[D -> [secret_arn : SecretArns]] : D \in SUBSET AliasNames}
StoredHostMaps ==
    UNION {[D -> [key_alias : AliasNames, args : {<<>>},
                  destination : {"user@host"}]] : D \in SUBSET HostNames}
StoredConfigs == [key_aliases : StoredAliasMaps, hosts : StoredHostMaps]

\* A configuration file serde_yaml::from_str rejects.
Unparsable == [parse |-> "Err"]

\* cli.rs, SetConfigSection and RemoveConfigSection.
SetCommands ==
    {[kind |-> "SetAlias", name |-> n, secret_arn |-> a]
     : n \in AliasNames, a \in SecretArns}
    \cup
    {[kind |-> "SetHost", name |-> h, alias |-> a, args |-> <<>>,
      destination |-> "user@host"] : h \in HostNames, a \in AliasNames}
RemoveCommands ==
    {[kind |-> "RemoveAlias", name |-> n] : n \in AliasNames}
    \cup
    {[kind |-> "RemoveHost", name |-> h] : h \in HostNames}
NoCommand == [kind |-> "none"]

\* HashMap::entry(k).or_insert(v): an existing entry is kept as it is.
OrInsert(m, k, v) ==
    [n \in DOMAIN m \cup {k} |-> IF n \in DOMAIN m THEN m[n] ELSE v]

\* HashMap::remove(k).
MapRemove(m, k) == [n \in DOMAIN m \ {k} |-> m[n]]

\* remove_config, host_names: the hosts whose key_alias is the alias.
HostsUsing(cfg, alias) ==
    {h \in DOMAIN cfg.hosts : cfg.hosts[h].key_alias = alias}

\* add_config up to its call of store: the error it returns before storing
\* ("none" when it goes on to store) and the Config it holds then.
AddConfig(cfg, command) ==
    IF command.kind = "SetAlias"
    THEN [err |-> "none",
          config |-> [cfg EXCEPT !.key_aliases =
                        OrInsert(@, command.name,
                                 [secret_arn |-> command.secret_arn])]]
    ELSE IF command.alias \notin DOMAIN cfg.key_aliases
         THEN [err |-> ErrConfigAliasNotFound, config |-> cfg]
         ELSE [err |-> "none",
               config |-> [cfg EXCEPT !.hosts =
                             OrInsert(@, command.name,
                                      [key_alias |-> command.alias,
                                       args |-> command.args,
                                       destination |-> command.destination])]]

RemoveConfigUnchecked(cfg, command) ==
    IF command.kind = "RemoveAlias"
    THEN IF command.name \notin DOMAIN cfg.key_aliases
         THEN [err |-> ErrConfigAliasNotFound, config |-> cfg]
         ELSE [err |-> "none",
               config |-> [cfg EXCEPT !.key_aliases =
                             MapRemove(@, command.name)]]
    ELSE IF command.name \notin DOMAIN cfg.hosts
         THEN [err |-> ErrConfigHostNotFound, config |-> cfg]
         ELSE [err |-> "none",
               config |-> [cfg EXCEPT !.hosts = MapRemove(@, command.name)]]

\* remove_config up to its call of store, in the same form.
RemoveConfig(cfg, command) ==
    IF command.kind = "RemoveAlias"
    THEN IF command.name \notin DOMAIN cfg.key_aliases
         THEN [err |-> ErrConfigAliasNotFound, config |-> cfg]
         ELSE IF HostsUsing(cfg, command.name) # {}
              THEN [err |-> ErrAliasInUse, config |-> cfg]
              ELSE [err |-> "none",
                    config |-> [cfg EXCEPT !.key_aliases =
                                  MapRemove(@, command.name)]]
    ELSE IF command.name \notin DOMAIN cfg.hosts
         THEN [err |-> ErrConfigHostNotFound, config |-> cfg]
         ELSE [err |-> "none",
               config |-> [cfg EXCEPT !.hosts = MapRemove(@, command.name)]]

\* What a failed std::fs::write can leave after it has truncated the file: a
\* prefix of the YAML text. key_aliases is written before hosts, so a prefix
\* that still parses holds every alias and some of the hosts; any other
\* prefix does not parse.
Truncations(cfg) ==
    {Unparsable} \cup
    {[cfg EXCEPT !.hosts = [n \in D |-> cfg.hosts[n]]]
     : D \in (SUBSET DOMAIN cfg.hosts) \ {DOMAIN cfg.hosts}}

\* Config::store: the result and the file afterwards. The write succeeds, or
\* the file cannot be opened and stays as it was, or the write fails after
\* the truncation.
StoreOutcomes(file, cfg) ==
    {[result |-> "Ok", file |-> cfg], [result |-> ErrStore, file |-> file]}
    \cup {[result |-> ErrStore, file |-> f] : f \in Truncations(cfg)}

\* main for a set or remove command: the Config loaded from the file, the
\* command on it, store when the command reaches it, and the exit status. r is
\* what the command did up to store.
ConfigInvocation(command, r) ==
    /\ cmd' = command
    /\ config' = r.config
    /\ IF r.err # "none"
       THEN /\ result' = r.err
            /\ stored' = FALSE
            /\ UNCHANGED configFile
       ELSE /\ stored' = TRUE
            /\ \E s \in StoreOutcomes(configFile, r.config) :
                 /\ configFile' = s.file
                 /\ result' = s.result
    /\ exitStatus' = IF result' = "Ok" THEN 0 ELSE 1
    /\ UNCHANGED <<env, pc, resVars, fsVars, sigVars, keyVars, argv, rcf,
                   childVars, ttyVars>>

\* smssh config set ...
add_config ==
    /\ pc = "main"
    /\ configFile # Unparsable
    /\ \E command \in SetCommands :
         ConfigInvocation(command, AddConfig(configFile, command))

\* smssh config remove ...
remove_config ==
    /\ pc = "main"
    /\ configFile # Unparsable
    /\ \E command \in RemoveCommands :
         ConfigInvocation(command, RemoveConfig(configFile, command))

\* main: Config::load fails on a file that does not parse, before any command
\* runs.
load_failed ==
    /\ pc = "main"
    /\ configFile = Unparsable
    /\ result' = ErrLoad
    /\ exitStatus' = 1
    /\ stored' = FALSE
    /\ UNCHANGED <<env, config, cmd, configFile, pc, resVars, fsVars, sigVars,
                   keyVars, argv, rcf, childVars, ttyVars>>

\* Every host's key_alias is a key of key_aliases.
HostsResolve(cfg) ==
    \A h \in DOMAIN cfg.hosts : cfg.hosts[h].key_alias \in DOMAIN cfg.key_aliases

\* Before the first of a series of set and remove invocations: a file whose
\* hosts all resolve, and no supervisor, child or staging.
ConfigInit ==
    /\ env \in Envs
    /\ configFile \in {c \in StoredConfigs : HostsResolve(c)}
    /\ config = configFile
    /\ cmd = NoCommand
    /\ stored = FALSE
    /\ pc = "main"
    /\ result = "none"
    /\ exitStatus = -1
    /\ key_alias_config = "none"
    /\ destination = <<>>
    /\ key_dir = NoDir
    /\ key_file = NoFile
    /\ rmFailed = {}
    /\ registered = {}
    /\ term_flag = FALSE
    /\ key = "unfetched"
    /\ fetchCount = 0
    /\ argv = <<>>
    /\ rcf = "none"
    /\ childState = "none"
    /\ childPgid = 0
    /\ childStatus = NoStatus
    /\ childPending = {}
    /\ helper = "none"
    /\ termFg = SupPgid
    /\ sigttou = env.sigttou
    /\ old_action = "unset"

ConfigNext ==
    \/ add_config
    \/ remove_config
    \/ load_failed

ConfigSpec == ConfigInit /\ [][ConfigNext]_vars

\* ---------------------------------------------------------- specification
Next ==
    \/ connect_by_alias
    \/ connect_by_host
    \/ create_key_directory
    \/ create_key_file
    \/ set_permissions
    \/ register_termination_handlers
    \/ pull_key
    \/ write_all
    \/ build_command
    \/ spawn
    \/ spawn_wait
    \/ sigaction_ignore
    \/ handoff
    \/ loop_check_flag
    \/ term_announce
    \/ term_kill
    \/ term_wait
    \/ term_done
    \/ try_wait
    \/ sleep
    \/ restore_fg
    \/ restore_sigaction
    \/ drop_key_file
    \/ drop_key_dir
    \/ main_return
    \/ DeliverSignal
    \/ ChildSetpgid
    \/ ChildExec
    \/ ChildExit
    \/ ChildKilled
    \/ ChildIgnoresTerm
    \/ ChildForksHelper

Spec == Init /\ [][Next]_vars

\* The supervisor's own steps.
Supervisor ==
    \/ connect_by_alias
    \/ connect_by_host
    \/ create_key_directory
    \/ create_key_file
    \/ set_permissions
    \/ register_termination_handlers
    \/ pull_key
    \/ write_all
    \/ build_command
    \/ spawn
    \/ spawn_wait
    \/ sigaction_ignore
    \/ handoff
    \/ loop_check_flag
    \/ term_announce
    \/ term_kill
    \/ term_wait
    \/ term_done
    \/ try_wait
    \/ sleep
    \/ restore_fg
    \/ restore_sigaction
    \/ drop_key_file
    \/ drop_key_dir
    \/ main_return

\* A supervisor step other than an error return of
\* run_command_in_foreground.
SupervisorProgress == Supervisor /\ rcf' \in {rcf, "Ok"}

\* The supervisor is a running thread: a step it can take without an
\* operating-system call failing is eventually taken. Nothing is assumed of
\* the child, of signal delivery or of failures.
FairSpec == Spec /\ WF_vars(SupervisorProgress)

\* ------------------------------------------------------------------ claims
Spawned == childState # "none"
RcfReturned == rcf # "none"

\* C1: whenever run_command_in_foreground has returned after the child was
\* spawned, the terminal's foreground group is the supervisor's group.
C1_TerminalRestoredOnReturn ==
    (RcfReturned /\ Spawned) => termFg = SupPgid

\* C2: once connect has returned after creating the staging directory, the
\* key file and the directory are gone (no removal having failed in the
\* operating system).
C2_StagingRemovedOnReturn ==
    (pc \in {"connect_returned", "exited"} /\ key_dir.loc # "none"
        /\ rmFailed = {})
    => (~key_file.exists /\ ~key_dir.exists)

\* C2 witness: connect has returned after a termination request ended the
\* child, and the staging directory that existed is gone.
C2_Witness ==
    /\ pc = "connect_returned"
    /\ rcf = "Ok"
    /\ term_flag
    /\ childState = "reaped"
    /\ childStatus.kind = "signal"
    /\ key_dir.loc # "none"
    /\ ~key_dir.exists
    /\ ~key_file.exists

\* C3: while the key file exists its mode is 0o600 or 0o400, with no group
\* or other bit, and the staging directory's mode is 0o700, under /dev/shm
\* and under the fallback location alike.
C3_OwnerOnlyModes ==
    key_file.exists =>
        /\ key_file.mode \in {FileMode, ReadOnlyMode}
        /\ BitAnd(key_file.mode, GroupOtherBits) = 0
        /\ key_dir.exists
        /\ key_dir.mode = DirMode
        /\ key_dir.loc \in {"/dev/shm", "/tmp"}

\* C3 witness: the populated key file, read-only, in the fallback location.
C3_Witness ==
    /\ key_file.exists
    /\ key_file.content = "secret"
    /\ key_file.mode = ReadOnlyMode
    /\ key_dir.loc = "/tmp"

\* C4: whenever run_command_in_foreground has returned after the child was
\* spawned, the child has exited and been reaped.
C4_ChildReapedOnReturn ==
    (RcfReturned /\ Spawned) => childState = "reaped"

\* C5: the process exit status mirrors the child: exit code c gives exit
\* status c, and a child killed by a signal gives a status that is no normal
\* exit code.
C5_ExitStatusMirrorsChild ==
    (pc = "exited" /\ rcf = "Ok" /\ childState = "reaped") =>
        /\ childStatus.kind = "exit" => exitStatus = childStatus.code
        /\ childStatus.kind = "signal" => exitStatus \notin 0..MaxExitCode

\* The extra arguments of the host profile the command names.
HostExtraArgs ==
    IF cmd.kind = "Connect" /\ cmd.name \in DOMAIN config.hosts
    THEN config.hosts[cmd.name].args ELSE <<>>

\* C6: the child's arguments are "-i", the key path, the host profile's
\* extra arguments, the caller's trailing arguments, then the destination.
C6_ArgvOrder ==
    argv # <<>> =>
        argv = <<"-i", KeyPath(key_dir)>> \o HostExtraArgs \o cmd.ssh_args
                 \o destination

NoSideEffects ==
    /\ key_dir = NoDir
    /\ key_file = NoFile
    /\ fetchCount = 0
    /\ registered = {}
    /\ childState = "none"

AliasAbsent ==
    cmd.kind = "ConnectWithAlias" /\ cmd.name \notin DOMAIN config.key_aliases
HostAbsent ==
    cmd.kind = "Connect" /\ cmd.name \notin DOMAIN config.hosts
AliasDangling ==
    /\ cmd.kind = "Connect"
    /\ cmd.name \in DOMAIN config.hosts
    /\ config.hosts[cmd.name].key_alias \notin DOMAIN config.key_aliases

\* C7: an absent alias, an absent host and a host whose key_alias is absent
\* fail with three different errors, and with no staging directory, fetch,
\* handler registration or child.
C7_ResolutionFailures ==
    /\ Cardinality({ErrAliasNotFound, ErrHostNotFound, ErrDanglingAlias}) = 3
    /\ (AliasAbsent \/ HostAbsent \/ AliasDangling) =>
          /\ NoSideEffects
          /\ pc \in {"main", "killed", "resolve_failed", "exited"}
          /\ pc \in {"resolve_failed", "exited"} =>
                result = (IF AliasAbsent THEN ErrAliasNotFound
                          ELSE IF HostAbsent THEN ErrHostNotFound
                          ELSE ErrDanglingAlias)

\* C7 witness: the process has exited on a dangling alias reference.
C7_Witness ==
    /\ AliasDangling
    /\ pc = "exited"
    /\ result = ErrDanglingAlias
    /\ exitStatus = 1

\* C8: get_key_blocking is called at most once, and after it has failed
\* there is no child, and the terminal's foreground group and the SIGTTOU
\* disposition are what they were at the start.
C8_FetchFailureAborts ==
    /\ fetchCount <= 1
    /\ key = "failed" =>
          /\ childState = "none"
          /\ argv = <<>>
          /\ termFg = SupPgid
          /\ sigttou = env.sigttou
          /\ old_action = "unset"
          /\ pc \in {"drop_key_file", "drop_key_dir", "connect_returned",
                     "exited", "killed"}

\* C8 witness: the process has exited after the one fetch failed.
C8_Witness ==
    /\ key = "failed"
    /\ fetchCount = 1
    /\ pc = "exited"
    /\ result = "Err(get_key_blocking)"

\* C9: when the parent is about to call tcsetpgrp with the child's pid, the
\* child already leads the group with that id, and the terminal is never in
\* the hands of a group the child does not lead.
C9_ChildLeadsGroupAtHandoff ==
    /\ pc = "handoff" => childPgid = ChildPid
    /\ termFg = ChildPid => childPgid = ChildPid

\* C9 witness: the parent is at the hand-off call and the child is running
\* in its own group.
C9_Witness ==
    /\ pc = "handoff"
    /\ childState = "running"
    /\ childPgid = ChildPid

\* C10: whenever run_command_in_foreground has returned after installing
\* the ignore disposition, SIGTTOU is back at the saved disposition.
C10_SigttouRestoredOnReturn ==
    (RcfReturned /\ old_action # "unset") => sigttou = old_action

\* C11: SIGTTOU is ignored whenever the supervisor is at one of its two
\* tcsetpgrp calls, and from the hand-off until the restoring call has been
\* made the saved disposition is not put back; no tcsetpgrp call stops the
\* supervisor.
C11_SigttouIgnoredAtTcsetpgrp ==
    /\ pc \in {"handoff", "loop", "try_wait", "sleep", "term_announce",
               "term_kill", "term_wait", "term_done", "restore_fg"}
          => (sigttou = "SIG_IGN" /\ old_action = env.sigttou)
    /\ pc # "stopped"

\* C11 witness: the supervisor is at the restoring tcsetpgrp call, in the
\* background, with SIGTTOU ignored and the default disposition saved.
C11_Witness ==
    /\ pc = "restore_fg"
    /\ termFg = ChildPid
    /\ sigttou = "SIG_IGN"
    /\ old_action = "SIG_DFL"

\* C12: when the loop has observed the termination flag, the step that sends
\* the termination signal reaches every live process of the child's group
\* (SIGTERM, or SIGKILL as the fallback), and the loop is left through the
\* termination branch only with the child reaped.
C12_TermSignalsChildGroup ==
    [][/\ (pc = "term_kill" /\ pc' = "term_wait") =>
             /\ childState = "running" => childPending' # {}
             /\ helper = "running" => helper' = "terminated"
       /\ (pc = "term_wait" /\ pc' = "term_done") => childState' = "reaped"
      ]_vars

Supervising ==
    pc \in {"loop", "try_wait", "sleep", "term_announce", "term_kill",
            "term_wait", "term_done"}

\* C13: once the termination flag is set while the supervisor is in its
\* loop, run_command_in_foreground eventually returns, whatever the child
\* does.
C13_TerminationRequestReturns ==
    (term_flag /\ Supervising) ~> RcfReturned

\* C14: after run_command_in_foreground has returned Ok, the terminal's
\* foreground group is the supervisor's process group, the group that owned
\* the terminal before the hand-off, whether or not the supervisor leads it.
C14_ForegroundIsSupervisorGroup ==
    rcf = "Ok" => termFg = SupPgid

\* C15: the staging directory and the key file exist only once the secret
\* has been fetched, and a failed fetch has created no staging directory.
C15_StagingAfterFetch ==
    /\ (key_dir.exists \/ key_file.exists) => key = "fetched"
    /\ key = "failed" => key_dir = NoDir

\* The write permission bits, 0o222.
WriteBits == 128 + 16 + 2

\* C16 as claimed: the key file keeps mode 0o600 until the secret bytes are
\* written, is read-only only once they are written, and is not writable
\* when it holds secret bytes.
C16_NarrowedAfterWrite ==
    key_file.exists =>
        /\ (key_file.content = "empty"
              /\ pc \in {"set_permissions", "register_termination_handlers",
                         "pull_key", "write_all"})
           => key_file.mode = FileMode
        /\ key_file.mode = ReadOnlyMode => key_file.content = "secret"
        /\ key_file.content # "empty" => BitAnd(key_file.mode, WriteBits) = 0

\* C16 amended: the key file has mode 0o600 only between its creation and
\* set_permissions, while empty; it is read-only before the secret is fetched
\* and written; it is not writable when it holds secret bytes.
C16_NarrowedBeforeWrite ==
    key_file.exists =>
        /\ key_file.mode = FileMode =>
              /\ key_file.content = "empty"
              /\ key = "unfetched"
              /\ pc \in {"set_permissions", "drop_key_file", "drop_key_dir",
                         "connect_returned", "exited", "killed"}
        /\ pc \in {"register_termination_handlers", "pull_key", "write_all"}
              => key_file.mode = ReadOnlyMode
        /\ key_file.content # "empty" =>
              /\ key_file.mode = ReadOnlyMode
              /\ BitAnd(key_file.mode, WriteBits) = 0

\* C16 witness: the secret has just been written into the file that was
\* already read-only.
C16_Witness ==
    /\ pc = "build_command"
    /\ key_file.exists
    /\ key_file.content = "secret"
    /\ key_file.mode = ReadOnlyMode

\* C17: the termination flag never goes back to false; a step that sets it
\* changes nothing else; a signal is sent to the child only at the kill of
\* the termination branch, with the flag set; the terminal's foreground
\* group changes only at the two tcsetpgrp calls; the key file and the
\* staging directory are removed only by the drops.
C17_HandlerOnlySetsFlag ==
    [][/\ term_flag => term_flag'
       /\ term_flag' # term_flag =>
             UNCHANGED <<env, config, cmd, configFile, stored, pc, result,
                                exitStatus,
                         key_alias_config, destination, key_dir, key_file,
                         rmFailed, registered, key, fetchCount, argv, rcf,
                         childState, childPgid, childStatus, childPending,
                         helper, termFg, sigttou, old_action>>
       /\ (childPending' \ childPending) # {} =>
             (pc = "term_kill" /\ term_flag)
       /\ helper' = "terminated" /\ helper # "terminated" =>
             (pc = "term_kill" /\ term_flag)
       /\ termFg' # termFg => pc \in {"handoff", "restore_fg"}
       /\ ((key_file.exists /\ ~key_file'.exists)
             \/ (key_dir.exists /\ ~key_dir'.exists))
          => pc \in {"drop_key_file", "drop_key_dir"}
      ]_vars

\* C17 witness: the flag is set and the main flow has sent SIGTERM to the
\* running child.
C17_Witness ==
    /\ term_flag
    /\ pc = "term_wait"
    /\ childState = "running"
    /\ "SIGTERM" \in childPending

\* C18: at the end of the staging scope the key file is dropped while the
\* directory still stands and the directory is removed only after the file's
\* drop has run, and no drop, failing or not, changes the result connect
\* returns.
C18_DropOrderAndResult ==
    /\ [](/\ pc = "drop_key_file" => (key_dir.exists /\ key_file.open)
          /\ pc = "drop_key_dir" => (key_dir.exists /\ ~key_file.open)
          /\ pc = "connect_returned" =>
                /\ result # "none"
                /\ rcf # "none" => result = rcf)
    /\ [][/\ (key_dir.exists /\ ~key_dir'.exists) =>
                (pc = "drop_key_dir" /\ ~key_file.open)
          /\ pc \in {"drop_key_file", "drop_key_dir"} =>
                (result' = result /\ rcf' = rcf)
         ]_vars

\* C18 witness: connect has returned Ok although both removals failed.
C18_Witness ==
    /\ pc = "connect_returned"
    /\ rmFailed = {"file", "dir"}
    /\ result = "Ok"
    /\ key_file.exists
    /\ key_dir.exists

\* C19: whenever the key file holds secret bytes all four termination
\* handlers are registered, and a supervisor killed by the default action of a
\* termination signal leaves at most an empty key file behind.
C19_HandlersBeforeSecret ==
    /\ key_file.content # "empty" => registered = TermSignals
    /\ (pc = "killed" /\ key_file.exists) => key_file.content = "empty"
    /\ pc = "killed" => registered # TermSignals

\* C19 witness: a termination signal arrived while the populated key file
\* was staged, and the supervisor is still running with the flag set.
C19_Witness ==
    /\ key_file.exists
    /\ key_file.content # "empty"
    /\ term_flag
    /\ pc \notin {"killed", "exited"}

\* The errors with which add_config and remove_config reject a command.
Rejections == {ErrConfigAliasNotFound, ErrConfigHostNotFound, ErrAliasInUse}

\* C20: from a file whose hosts all resolve, after any series of set and
\* remove invocations the hosts of the file and of the Config in memory still
\* resolve; setting a host on an absent alias and removing an alias a host
\* uses are rejected; and a rejected command leaves the Config as loaded and
\* does not call store.
C20_HostAliasesResolve ==
    /\ [](/\ configFile # Unparsable => HostsResolve(configFile)
          /\ HostsResolve(config))
    /\ [][configFile # Unparsable =>
            /\ (cmd'.kind = "SetHost"
                  /\ cmd'.alias \notin DOMAIN configFile.key_aliases)
               => result' = ErrConfigAliasNotFound
            /\ (cmd'.kind = "RemoveAlias"
                  /\ HostsUsing(configFile, cmd'.name) # {})
               => result' = ErrAliasInUse
            /\ result' \in Rejections =>
                 /\ config' = configFile
                 /\ configFile' = configFile
                 /\ ~stored'
         ]_vars

\* C20 witness: the removal of an alias a host still uses was rejected.
C20_Witness ==
    /\ cmd.kind = "RemoveAlias"
    /\ result = ErrAliasInUse
    /\ ~stored
    /\ configFile # Unparsable
    /\ HostsUsing(configFile, cmd.name) # {}
    /\ cmd.name \in DOMAIN configFile.key_aliases

====
